---- MODULE Spec2Model ----
(***************************************************************************)
(* ChatWidget (src/chatwidget/chatwidget.js): a floating chat panel that   *)
(* posts the user's text to an endpoint and renders the reply.             *)
(*                                                                         *)
(* Strings are sequences of one-character strings, so that trim(),         *)
(* String() and JSON.stringify() are computed and not assumed.  A JSON     *)
(* value is a tagged record; an object is the sequence of its <<key,       *)
(* value>> pairs in insertion order (the order JSON.stringify follows).    *)
(***************************************************************************)
EXTENDS Integers, Sequences, FiniteSets, TLC

(* ------------------------------ bounds -------------------------------- *)

\* sends one behaviour of Spec may start
MaxSends == 2

(* ------------------------------ strings ------------------------------- *)

\* line 163: the fixed text of the fallback message
Apology ==
    <<"S", "o", "r", "r", "y", ",", " ", "s", "o", "m", "e", "t", "h", "i",
      "n", "g", " ", "w", "e", "n", "t", " ", "w", "r", "o", "n", "g", ".",
      " ", "P", "l", "e", "a", "s", "e", " ", "t", "r", "y", " ", "a", "g",
      "a", "i", "n", " ", "l", "a", "t", "e", "r", ".">>

\* line 170: the text of the typing entry ("..." stands for U+2026)
TypingText ==
    <<"B", "o", "t", " ", "i", "s", " ", "t", "y", "p", "i", "n", "g", "...">>

kReply == <<"r", "e", "p", "l", "y">>
kReplies == <<"r", "e", "p", "l", "i", "e", "s">>
kText == <<"t", "e", "x", "t">>
kFoo == <<"f", "o", "o">>
kToString == <<"t", "o", "S", "t", "r", "i", "n", "g">>

\* characters String.prototype.trim strips, among those the model types
WhiteSpace == {" ", "\n"}

RECURSIVE TrimStart(_)
TrimStart(s) ==
    IF s # <<>> /\ Head(s) \in WhiteSpace THEN TrimStart(Tail(s)) ELSE s

RECURSIVE TrimEnd(_)
TrimEnd(s) ==
    IF s # <<>> /\ s[Len(s)] \in WhiteSpace
    THEN TrimEnd(SubSeq(s, 1, Len(s) - 1))
    ELSE s

\* a text taken from the textarea as it is
TrimNothing(s) == s

\* line 153: String.prototype.trim
Trim(s) == TrimEnd(TrimStart(s))

\* the values the user gives the textarea: "", " ", "a", " b\n"
Inputs == { <<>>, <<" ">>, <<"a">>, <<" ", "b", "\n">> }

(* ---------------------------- JSON values ----------------------------- *)

JNull == [t |-> "null"]
JBool(b) == [t |-> "bool", b |-> b]
JNum(n) == [t |-> "num", n |-> n]
JStr(s) == [t |-> "str", s |-> s]
JArr(a) == [t |-> "arr", a |-> a]
JObj(o) == [t |-> "obj", o |-> o]

\* the value of a property that does not exist
Undefined == [t |-> "undefined"]

\* a response body that is no JSON text: res.json() rejects
NotJson == [t |-> "notjson"]

\* own property lookup j[key]; a primitive or an array has none of the
\* properties the widget reads (reply, replies, text)
Get(j, key) ==
    IF j.t = "obj" /\ \E i \in 1..Len(j.o) : j.o[i][1] = key
    THEN j.o[CHOOSE i \in 1..Len(j.o) : j.o[i][1] = key][2]
    ELSE Undefined

\* ToBoolean: null, undefined, false, 0 and "" are falsy
Truthy(v) ==
    CASE v.t = "null" -> FALSE
      [] v.t = "undefined" -> FALSE
      [] v.t = "bool" -> v.b
      [] v.t = "num" -> v.n # 0
      [] v.t = "str" -> v.s # <<>>
      [] OTHER -> TRUE

Digit == <<"0", "1", "2", "3", "4", "5", "6", "7", "8", "9">>

RECURSIVE NatToStr(_)
NatToStr(n) ==
    IF n < 10 THEN <<Digit[n + 1]>>
    ELSE NatToStr(n \div 10) \o <<Digit[(n % 10) + 1]>>

\* Number::toString for the integers a body carries
NumToStr(n) == IF n < 0 THEN <<"-">> \o NatToStr(0 - n) ELSE NatToStr(n)

\* String(v) throws a TypeError exactly when ToPrimitive finds no callable
\* toString returning a primitive: an object parsed from JSON with an own
\* "toString" property (never callable), or an array holding one.
RECURSIVE CanCoerce(_)
CanCoerce(v) ==
    CASE v.t = "obj" -> Get(v, kToString) = Undefined
      [] v.t = "arr" -> \A i \in 1..Len(v.a) : CanCoerce(v.a[i])
      [] OTHER -> TRUE

\* lines 206, 208: String(v), for a v that CanCoerce
RECURSIVE ToStr(_)
RECURSIVE JoinStr(_)
ToStr(v) ==
    CASE v.t = "null" -> <<"n", "u", "l", "l">>
      [] v.t = "undefined" ->
            <<"u", "n", "d", "e", "f", "i", "n", "e", "d">>
      [] v.t = "bool" ->
            IF v.b THEN <<"t", "r", "u", "e">>
            ELSE <<"f", "a", "l", "s", "e">>
      [] v.t = "num" -> NumToStr(v.n)
      [] v.t = "str" -> v.s
      [] v.t = "arr" -> JoinStr(v.a)
      [] OTHER ->
            <<"[", "o", "b", "j", "e", "c", "t", " ",
              "O", "b", "j", "e", "c", "t", "]">>

\* Array.prototype.join(","): null elements give the empty string
JoinStr(a) ==
    IF a = <<>> THEN <<>>
    ELSE LET h == IF Head(a).t = "null" THEN <<>> ELSE ToStr(Head(a))
         IN  IF Len(a) = 1 THEN h ELSE h \o <<",">> \o JoinStr(Tail(a))

\* a string in double quotes (the model's strings hold no character that
\* JSON.stringify escapes)
Quote(s) == <<"\"">> \o s \o <<"\"">>

\* line 211: JSON.stringify(v), compact
RECURSIVE Stringify(_)
RECURSIVE StringifyItems(_)
RECURSIVE StringifyProps(_)
Stringify(v) ==
    CASE v.t = "null" -> <<"n", "u", "l", "l">>
      [] v.t = "bool" ->
            IF v.b THEN <<"t", "r", "u", "e">>
            ELSE <<"f", "a", "l", "s", "e">>
      [] v.t = "num" -> NumToStr(v.n)
      [] v.t = "str" -> Quote(v.s)
      [] v.t = "arr" -> <<"[">> \o StringifyItems(v.a) \o <<"]">>
      [] OTHER -> <<"{">> \o StringifyProps(v.o) \o <<"}">>

StringifyItems(a) ==
    IF a = <<>> THEN <<>>
    ELSE IF Len(a) = 1 THEN Stringify(Head(a))
    ELSE Stringify(Head(a)) \o <<",">> \o StringifyItems(Tail(a))

StringifyProps(o) ==
    IF o = <<>> THEN <<>>
    ELSE LET h == Quote(Head(o)[1]) \o <<":">> \o Stringify(Head(o)[2])
         IN  IF Len(o) = 1 THEN h ELSE h \o <<",">> \o StringifyProps(Tail(o))

(* --------------------------- response bodies --------------------------- *)

sA == <<"A">>
sB == <<"B">>
sC == <<"C">>
sX == <<"x">>
sY == <<"y">>
sBar == <<"b", "a", "r">>

\* an object no String() can coerce: {"toString":0}
NoToString == JObj(<<<<kToString, JNum(0)>>>>)

\* {"reply":"A","replies":["B"],"text":"C"}
BodyAll == JObj(<< <<kReply, JStr(sA)>>, <<kReplies, JArr(<<JStr(sB)>>)>>,
                   <<kText, JStr(sC)>> >>)

\* bodies with a string "reply" (rule a)
ReplyBodies ==
    { BodyAll,
      JObj(<< <<kReply, JStr(sA)>> >>),
      JObj(<< <<kReply, JStr(<<>>)>> >>),
      JObj(<< <<kReply, JStr(sA)>>, <<kText, JNum(0)>> >>) }

\* bodies whose "replies" is an array and whose "reply" is no string (rule b)
RepliesBodies ==
    { JObj(<< <<kReplies, JArr(<<JStr(sX), JStr(sY)>>)>> >>),
      JObj(<< <<kReplies, JArr(<<>>)>> >>),
      JObj(<< <<kReplies, JArr(<<>>)>>, <<kText, JStr(sC)>> >>),
      JObj(<< <<kReply, JNum(1)>>, <<kReplies, JArr(<<JStr(sB)>>)>>,
              <<kText, JStr(sC)>> >>),
      JObj(<< <<kReplies, JArr(<<JNum(0), JNull, JBool(TRUE)>>)>> >>),
      JObj(<< <<kReplies,
                JArr(<<JArr(<<JStr(sX), JNull, JNum(42)>>), JObj(<<>>)>>)>> >>),
      JObj(<< <<kReplies, JArr(<<JStr(sX), NoToString>>)>> >>) }

\* bodies with a "text" field and neither of the above (rule c)
TextBodies ==
    { JObj(<< <<kText, JNum(42)>> >>),
      JObj(<< <<kText, JStr(sC)>> >>),
      JObj(<< <<kReplies, JStr(sX)>>, <<kText, JStr(sC)>> >>),
      JObj(<< <<kText, JNum(0)>> >>),
      JObj(<< <<kText, JBool(FALSE)>> >>),
      JObj(<< <<kText, JStr(<<>>)>> >>),
      JObj(<< <<kText, JNull>> >>),
      JObj(<< <<kText, JObj(<<>>)>> >>) }

\* every other JSON value (rule d)
OtherBodies ==
    { JObj(<< <<kFoo, JStr(sBar)>> >>),
      JObj(<<>>),
      JArr(<<>>),
      JArr(<<JStr(sX)>>),
      JNum(5), JBool(TRUE), JStr(sX),
      JNum(0), JBool(FALSE), JNull, JStr(<<>>) }

\* what the body of a response can be
AllBodies ==
    ReplyBodies \cup RepliesBodies \cup TextBodies \cup OtherBodies
        \cup {NotJson}

\* HTTP statuses of a response
Statuses == {200, 204, 404, 500}

\* every response of the model
AllResponses == [status : Statuses, body : AllBodies]

\* the responses the multi-send specification draws from
CoreResponses ==
    { [status |-> 200,
       body |-> JObj(<< <<kReplies, JArr(<<JStr(sX), JStr(sY)>>)>> >>)],
      [status |-> 200,
       body |-> JObj(<< <<kReplies, JArr(<<JStr(sX), NoToString>>)>> >>)],
      [status |-> 500, body |-> JObj(<< <<kReply, JStr(sA)>> >>)] }

\* an ok that has no upper limit
OkFrom200(res) == res.status >= 200

\* line 194: Response.ok
Ok(res) == res.status >= 200 /\ res.status <= 299

(* ------------------------------- state --------------------------------- *)

VARIABLES
    opts,       \* this.opts: [endpoint, sessionId, onMessageReceived]
    sessionId,  \* this.sessionId
    isOpen,     \* this.isOpen
    textarea,   \* this.textarea.value
    messages,   \* children of this.messages: [cls, text, by]; "by" records
                \* the send that added the entry
    sends,      \* the calls of _onSend that passed the empty check, in call
                \* order: [text, pc, err, status, body, overlapped]
    requests,   \* the payloads handed to fetch, in call order
    observed    \* the arguments of the calls of opts.onMessageReceived, in
                \* call order

vars ==
    <<opts, sessionId, isOpen, textarea, messages, sends, requests, observed>>

\* a URL
Url == <<"u">>

\* line 16, and ids a host supplies
NoSession == <<>>
HostSession == <<"h">>

\* line 43: 'sess_' + Math.random().toString(36).slice(2,9)
GeneratedSessions == { <<"s", "e", "s", "s", "_", "p">>,
                       <<"s", "e", "s", "s", "_", "q">> }

\* line 17, and what a host gives as onMessageReceived: nothing, a function
\* that returns, a function that throws
Observers == {"null", "fn", "throws"}

\* line 147: typeof this.opts.onMessageReceived === 'function'
IsFunction(f) == f \in {"fn", "throws"}

\* the messages area and the observer's calls as one value that the
\* operations below pass on; threw says that an exception is propagating
UI == [msgs |-> messages, obs |-> observed, threw |-> FALSE]

SendIds == 1..Len(sends)

InFlight == {i \in SendIds : sends[i].pc # "done"}

\* the continuation of an awaited promise that is already settled runs as a
\* microtask: before the next event or network callback
MicrotaskPending == \E i \in SendIds : sends[i].pc = "settle"

TypingCount == Cardinality({k \in 1..Len(messages) : messages[k].cls = "typing"})

IsMessage(e) == e.cls # "typing"

\* the rendered user and bot messages, in order
Transcript == SelectSeq(messages, IsMessage)

(* ----------------------------- operations ------------------------------ *)

\* an _appendMsg whose observer call is not wrapped in try/catch
AppendMsgUncaught(ui, text, who, i) ==
    IF ui.threw THEN ui
    ELSE [msgs |-> Append(ui.msgs,
                          [cls |-> IF who = "user" THEN "user" ELSE "bot",
                           text |-> text, by |-> i]),
          obs |-> IF IsFunction(opts.onMessageReceived)
                  THEN Append(ui.obs, [who |-> who, text |-> text,
                                       sessionId |-> sessionId])
                  ELSE ui.obs,
          threw |-> opts.onMessageReceived = "throws"]

\* an _appendMsg that calls the observer for bot messages only
AppendMsgBotOnly(ui, text, who, i) ==
    IF ui.threw THEN ui
    ELSE [msgs |-> Append(ui.msgs,
                          [cls |-> IF who = "user" THEN "user" ELSE "bot",
                           text |-> text, by |-> i]),
          obs |-> IF IsFunction(opts.onMessageReceived) /\ who # "user"
                  THEN Append(ui.obs, [who |-> who, text |-> text,
                                       sessionId |-> sessionId])
                  ELSE ui.obs,
          threw |-> FALSE]

\* an _appendMsg that inserts the entry before the first child
AppendMsgPrepend(ui, text, who, i) ==
    IF ui.threw THEN ui
    ELSE [msgs |-> <<[cls |-> IF who = "user" THEN "user" ELSE "bot",
                      text |-> text, by |-> i]>> \o ui.msgs,
          obs |-> IF IsFunction(opts.onMessageReceived)
                  THEN Append(ui.obs, [who |-> who, text |-> text,
                                       sessionId |-> sessionId])
                  ELSE ui.obs,
          threw |-> FALSE]

\* lines 143-150: _appendMsg.  The entry is appended, then the observer, if
\* it is a function, is called with {who, text, sessionId}; what it throws
\* is caught (line 148), so no exception leaves _appendMsg.  A call that an
\* exception propagating in the caller skips changes nothing.
AppendMsg(ui, text, who, i) ==
    IF ui.threw THEN ui
    ELSE [msgs |-> Append(ui.msgs,
                          [cls |-> IF who = "user" THEN "user" ELSE "bot",
                           text |-> text, by |-> i]),
          obs |-> IF IsFunction(opts.onMessageReceived)
                  THEN Append(ui.obs, [who |-> who, text |-> text,
                                       sessionId |-> sessionId])
                  ELSE ui.obs,
          threw |-> FALSE]

\* lines 169-174: _showTyping
ShowTyping(msgs, i) ==
    Append(msgs, [cls |-> "typing", text |-> TypingText, by |-> i])

IsNotTyping(e) == e.cls # "typing"

\* a _hideTyping that removes the last child of the message area
HideTypingLastChild(msgs) ==
    IF msgs = <<>> THEN msgs ELSE SubSeq(msgs, 1, Len(msgs) - 1)

\* a _hideTyping that removes one typing entry, the oldest, and not all
HideTypingOne(msgs) ==
    LET typing == {k \in 1..Len(msgs) : msgs[k].cls = "typing"}
    IN  IF typing = {} THEN msgs
        ELSE LET first == CHOOSE k \in typing : \A m \in typing : k <= m
             IN  SubSeq(msgs, 1, first - 1) \o SubSeq(msgs, first + 1, Len(msgs))

\* lines 175-178: _hideTyping
HideTyping(msgs) == SelectSeq(msgs, IsNotTyping)

\* line 206: replies.forEach(r => _appendMsg(String(r), 'bot')); the first
\* element String() throws on ends the loop
RECURSIVE CoerceEach(_)
CoerceEach(a) ==
    IF a = <<>> THEN [out |-> <<>>, err |-> "none"]
    ELSE IF ~CanCoerce(Head(a)) THEN [out |-> <<>>, err |-> "coerce"]
    ELSE LET rest == CoerceEach(Tail(a))
         IN  [out |-> <<ToStr(Head(a))>> \o rest.out, err |-> rest.err]

\* a resolution that looks at "replies" before "reply"
ResolveRepliesFirst(j) ==
    IF ~Truthy(j) THEN [out |-> <<>>, err |-> "json"]
    ELSE IF Get(j, kReplies).t = "arr"
        THEN CoerceEach(Get(j, kReplies).a)
    ELSE IF Get(j, kReply).t = "str"
        THEN [out |-> <<Get(j, kReply).s>>, err |-> "none"]
    ELSE IF Truthy(Get(j, kText))
        THEN IF CanCoerce(Get(j, kText))
             THEN [out |-> <<ToStr(Get(j, kText))>>, err |-> "none"]
             ELSE [out |-> <<>>, err |-> "coerce"]
    ELSE [out |-> <<Stringify(j)>>, err |-> "none"]

\* lines 200-212: the texts appended for the parsed body j, in order, and
\* the error thrown, if any
ResolveReplies(j) ==
    IF ~Truthy(j) THEN [out |-> <<>>, err |-> "json"]
    ELSE IF Get(j, kReply).t = "str"
        THEN [out |-> <<Get(j, kReply).s>>, err |-> "none"]
    ELSE IF Get(j, kReplies).t = "arr"
        THEN CoerceEach(Get(j, kReplies).a)
    ELSE IF Truthy(Get(j, kText))
        THEN IF CanCoerce(Get(j, kText))
             THEN [out |-> <<ToStr(Get(j, kText))>>, err |-> "none"]
             ELSE [out |-> <<>>, err |-> "coerce"]
    ELSE [out |-> <<Stringify(j)>>, err |-> "none"]

RECURSIVE AppendAll(_, _, _)
AppendAll(ui, texts, i) ==
    IF texts = <<>> THEN ui
    ELSE AppendAll(AppendMsg(ui, Head(texts), "bot", i), Tail(texts), i)

\* line 199: res.json().catch(() => null)
ParseJson(body) == IF body = NotJson THEN JNull ELSE body

\* a handler that appends the apology in the finally block
CatchFinallyAlways(ui, err, i) ==
    LET c == AppendMsg(ui, Apology, "bot", i)
    IN  [c EXCEPT !.msgs = HideTyping(c.msgs)]

\* lines 161-166: catch and finally of _onSend; the finally block runs
\* also when the catch block throws
CatchFinally(ui, err, i) ==
    LET c == IF err # "none" THEN AppendMsg(ui, Apology, "bot", i) ELSE ui
    IN  [c EXCEPT !.msgs = HideTyping(c.msgs)]

\* a payload with a session id made anew for the request
PayloadNewSession(message) ==
    [message |-> message,
     sessionId |-> <<"s", "e", "s", "s", "_">> \o message]

\* lines 183-187: the payload (metadata.origin, the page's URL, is left out)
Payload(message) == [message |-> message, sessionId |-> sessionId]

\* an endpoint check that never fails
EndpointNeverMissing == FALSE

\* line 182: !this.opts.endpoint
EndpointMissing == opts.endpoint = <<>>

\* lines 36-47: the state after construction with the options o
Constructed(o) ==
    /\ opts = o
    /\ sessionId \in IF o.sessionId # NoSession THEN {o.sessionId}
                     ELSE GeneratedSessions
    /\ isOpen = FALSE
    /\ textarea = <<>>
    /\ messages = <<>>
    /\ sends = <<>>
    /\ requests = <<>>
    /\ observed = <<>>

\* hosts with a returning observer
Init ==
    \E o \in [endpoint : {<<>>, Url}, sessionId : {NoSession, HostSession},
              onMessageReceived : {"fn"}] : Constructed(o)

\* hosts with every kind of observer
InitObserver ==
    \E o \in [endpoint : {<<>>, Url}, sessionId : {HostSession},
              onMessageReceived : Observers] : Constructed(o)

\* the user edits the textarea
Type(v) ==
    /\ ~MicrotaskPending
    /\ textarea # v
    /\ textarea' = v
    /\ UNCHANGED <<opts, sessionId, isOpen, messages, sends, requests,
                   observed>>

\* lines 152-160: _onSend up to its await; lines 181-193:
\* sendMessageToEndpoint up to its first await
OnSend(limit) ==
    LET text == Trim(textarea)
        i == Len(sends) + 1
        send == [text |-> text, pc |-> "fetch", err |-> "none", status |-> 0,
                 body |-> NotJson, overlapped |-> InFlight # {}]
        ui == AppendMsg(UI, text, "user", i)
    IN  /\ ~MicrotaskPending
        /\ Len(sends) < limit
        /\ text # <<>>
        /\ observed' = ui.obs
        /\ IF ui.threw
           THEN \* _appendMsg threw: _onSend ends at line 155
                /\ messages' = ui.msgs
                /\ UNCHANGED <<textarea, sends, requests>>
           ELSE /\ messages' = ShowTyping(ui.msgs, i)
                /\ textarea' = <<>>
                /\ IF EndpointMissing
                   THEN /\ sends' = Append(sends, [send EXCEPT
                                                       !.pc = "settle",
                                                       !.err = "endpoint"])
                        /\ UNCHANGED requests
                   ELSE /\ sends' = Append(sends, send)
                        /\ requests' = Append(requests, Payload(text))
        /\ UNCHANGED <<opts, sessionId, isOpen>>

\* line 86: click on Send
Click(limit) == OnSend(limit)

\* lines 87-90: keydown in the textarea
KeyDown(e, limit) ==
    /\ \/ (e.ctrlKey \/ e.metaKey) /\ e.key = "Enter"
       \/ e.key = "Enter" /\ ~e.shiftKey
    /\ OnSend(limit)

KeyEvents == [key : {"Enter", "a"}, shiftKey : BOOLEAN, ctrlKey : BOOLEAN,
              metaKey : {FALSE}]

\* lines 188-194: fetch resolves with a response
FetchResolve(i, res) ==
    /\ ~MicrotaskPending
    /\ sends[i].pc = "fetch"
    /\ sends' = [sends EXCEPT ![i].status = res.status, ![i].body = res.body,
                              ![i].pc = IF Ok(res) THEN "json" ELSE "text"]
    /\ UNCHANGED <<opts, sessionId, isOpen, textarea, messages, requests,
                   observed>>

\* line 188: fetch rejects (network failure)
FetchReject(i) ==
    /\ ~MicrotaskPending
    /\ sends[i].pc = "fetch"
    /\ sends' = [sends EXCEPT ![i].pc = "settle", ![i].err = "network"]
    /\ UNCHANGED <<opts, sessionId, isOpen, textarea, messages, requests,
                   observed>>

\* lines 195-196: res.text() resolves, or rejects and t is null; either way
\* the Error is thrown (t is part of its message only)
TextSettle(i, captured) ==
    /\ ~MicrotaskPending
    /\ sends[i].pc = "text"
    /\ sends' = [sends EXCEPT ![i].pc = "settle", ![i].err = "status"]
    /\ UNCHANGED <<opts, sessionId, isOpen, textarea, messages, requests,
                   observed>>

\* lines 199-212: res.json() settles, the replies are appended
JsonSettle(i) ==
    LET r == ResolveReplies(ParseJson(sends[i].body))
        ui == AppendAll(UI, r.out, i)
    IN  /\ ~MicrotaskPending
        /\ sends[i].pc = "json"
        /\ messages' = ui.msgs
        /\ observed' = ui.obs
        /\ sends' = [sends EXCEPT ![i].pc = "settle",
                                  ![i].err = IF ui.threw THEN "observer"
                                             ELSE r.err]
        /\ UNCHANGED <<opts, sessionId, isOpen, textarea, requests>>

\* an _onSend that resumes after a fulfilled await only
SettleOnSuccessOnly(i) ==
    /\ sends[i].pc = "settle"
    /\ sends[i].err = "none"
    /\ messages' = CatchFinally(UI, sends[i].err, i).msgs
    /\ observed' = CatchFinally(UI, sends[i].err, i).obs
    /\ sends' = [sends EXCEPT ![i].pc = "done"]
    /\ UNCHANGED <<opts, sessionId, isOpen, textarea, requests>>

\* lines 160-166: the await of _onSend resumes
Settle(i) ==
    /\ sends[i].pc = "settle"
    /\ messages' = CatchFinally(UI, sends[i].err, i).msgs
    /\ observed' = CatchFinally(UI, sends[i].err, i).obs
    /\ sends' = [sends EXCEPT ![i].pc = "done"]
    /\ UNCHANGED <<opts, sessionId, isOpen, textarea, requests>>

\* lines 124-131: open
Open ==
    /\ ~MicrotaskPending
    /\ isOpen' = TRUE
    /\ UNCHANGED <<opts, sessionId, textarea, messages, sends, requests,
                   observed>>

\* a close that also clears the message area of typing entries
CloseClears ==
    /\ ~MicrotaskPending
    /\ isOpen' = FALSE
    /\ messages' = HideTyping(messages)
    /\ UNCHANGED <<opts, sessionId, textarea, sends, requests, observed>>

\* lines 133-137: close
Close ==
    /\ ~MicrotaskPending
    /\ isOpen' = FALSE
    /\ UNCHANGED <<opts, sessionId, textarea, messages, sends, requests,
                   observed>>

\* lines 119-122: toggle
Toggle == IF isOpen THEN Close ELSE Open

Next ==
    \/ \E v \in Inputs : Type(v)
    \/ Click(MaxSends)
    \/ \E e \in KeyEvents : KeyDown(e, MaxSends)
    \/ \E i \in SendIds, res \in CoreResponses : FetchResolve(i, res)
    \/ \E i \in SendIds : FetchReject(i)
    \/ \E i \in SendIds, captured \in BOOLEAN : TextSettle(i, captured)
    \/ \E i \in SendIds : JsonSettle(i)
    \/ \E i \in SendIds : Settle(i)
    \/ Open
    \/ Close
    \/ Toggle

Spec == Init /\ [][Next]_vars

\* one send, over every response: the specification of the claims about
\* how one exchange is classified
NextReply ==
    \/ \E v \in Inputs : Type(v)
    \/ Click(1)
    \/ \E e \in KeyEvents : KeyDown(e, 1)
    \/ \E i \in SendIds, res \in AllResponses : FetchResolve(i, res)
    \/ \E i \in SendIds : FetchReject(i)
    \/ \E i \in SendIds, captured \in BOOLEAN : TextSettle(i, captured)
    \/ \E i \in SendIds : JsonSettle(i)
    \/ \E i \in SendIds : Settle(i)
    \/ Open
    \/ Close
    \/ Toggle

SpecReply == Init /\ [][NextReply]_vars

\* the widget with each kind of observer
SpecObserver == InitObserver /\ [][Next]_vars

\* the network answers: a fetch that was issued resolves or rejects, a body
\* that is being read is read to its end; and a continuation that is queued
\* as a microtask runs
Fairness ==
    /\ WF_vars(\E i \in SendIds :
                  \/ \E res \in CoreResponses : FetchResolve(i, res)
                  \/ FetchReject(i))
    /\ WF_vars(\E i \in SendIds, captured \in BOOLEAN : TextSettle(i, captured))
    /\ WF_vars(\E i \in SendIds : JsonSettle(i))
    /\ WF_vars(\E i \in SendIds : Settle(i))

\* the widget of a host that gave its session id, with or without endpoint
InitLive ==
    \E o \in [endpoint : {<<>>, Url}, sessionId : {HostSession},
               onMessageReceived : {"fn"}] : Constructed(o)

\* two sends, which may overlap, over the core responses
NextLive ==
    \/ \E v \in Inputs : Type(v)
    \/ Click(2)
    \/ \E e \in KeyEvents : KeyDown(e, 2)
    \/ \E i \in SendIds, res \in CoreResponses : FetchResolve(i, res)
    \/ \E i \in SendIds : FetchReject(i)
    \/ \E i \in SendIds, captured \in BOOLEAN : TextSettle(i, captured)
    \/ \E i \in SendIds : JsonSettle(i)
    \/ \E i \in SendIds : Settle(i)
    \/ Open
    \/ Close
    \/ Toggle

SpecLive == InitLive /\ [][NextLive]_vars /\ Fairness

(* ------------------------------- claims -------------------------------- *)

RECURSIVE TextsOf(_)
TextsOf(entries) ==
    IF entries = <<>> THEN <<>>
    ELSE <<Head(entries).text>> \o TextsOf(Tail(entries))

\* the texts of the bot entries send i added, in transcript order
BotsOf(i) ==
    LET IsBotOf(e) == e.cls = "bot" /\ e.by = i
    IN  TextsOf(SelectSeq(messages, IsBotOf))

Done(i) == sends[i].pc = "done"

\* send i got a response with a success status whose body parsed as JSON
ParsedSuccess(i) ==
    /\ Done(i)
    /\ sends[i].err \notin {"endpoint", "network"}
    /\ sends[i].status \in 200..299
    /\ sends[i].body # NotJson

\* does the object j have a field named key (with any value)
HasField(j, key) == j.t = "obj" /\ \E k \in 1..Len(j.o) : j.o[k][1] = key

FieldOf(j, key) == j.o[CHOOSE k \in 1..Len(j.o) : j.o[k][1] = key][2]

HasStringReply(j) == HasField(j, kReply) /\ FieldOf(j, kReply).t = "str"

HasArrayReplies(j) == HasField(j, kReplies) /\ FieldOf(j, kReplies).t = "arr"

\* C1: in every reachable state the message area holds 0 or 1 typing
\* entries, also when a send is triggered while an earlier one is pending.
C1_AtMostOneTyping == TypingCount <= 1

\* C2: the step in which a send settles (its catch/finally has run) leaves
\* no typing entry, whatever its outcome and whatever other sends are
\* pending.
C2_SettleClearsTyping ==
    [][\A i \in SendIds :
          (sends[i].pc # "done" /\ sends'[i].pc = "done") => TypingCount' = 0]_vars

\* a send has settled while a send that overlapped it is still pending, and
\* no typing entry is left
C2_Witness ==
    \E i, j \in SendIds :
        /\ Done(i)
        /\ sends[j].pc = "fetch"
        /\ sends[j].overlapped
        /\ TypingCount = 0

\* the block the claim C3 gives send i: its user message, then its resolved
\* replies, or the fallback message alone when the send failed
RECURSIVE C3_Blocks(_)
C3_Blocks(n) ==
    IF n = 0 THEN <<>>
    ELSE C3_Blocks(n - 1) \o <<sends[n].text>> \o
         (IF sends[n].err # "none" THEN <<Apology>>
          ELSE ResolveReplies(ParseJson(sends[n].body)).out)

\* C3: when every send settled before the next was triggered, the
\* transcript is the concatenation, in call order, of each send's block:
\* the user message, then the send's replies or the single fallback.
C3_SequentialOrder ==
    (\A i \in SendIds : Done(i) /\ ~sends[i].overlapped)
        => TextsOf(Transcript) = C3_Blocks(Len(sends))

\* C4: at most one send is in flight in every reachable state.
C4_SingleFlight == Cardinality(InFlight) <= 1

\* the error outcomes C5 lists: missing endpoint, network failure,
\* non-success status, unparseable success body
C5_ListedError(i) ==
    \/ sends[i].err \in {"endpoint", "network", "status"}
    \/ sends[i].err = "json" /\ sends[i].body = NotJson

C6_BadStatusIsError ==
    \A i \in SendIds :
        (Done(i) /\ sends[i].err \notin {"endpoint", "network"}
                 /\ sends[i].status \notin 200..299)
            => /\ BotsOf(i) = <<Apology>>
               /\ TypingCount = 0

\* a 500 response carrying the well-formed body {"reply":"A"} has settled
C6_Witness ==
    \E i \in SendIds :
        /\ Done(i)
        /\ sends[i].status = 500
        /\ sends[i].body = JObj(<< <<kReply, JStr(sA)>> >>)
        /\ TextsOf(Transcript) = <<sends[i].text, Apology>>

\* C7: a parsed success body with a string field "reply" adds exactly one
\* bot message, that string, whatever "replies" and "text" it also has.
C7_ReplyWins ==
    \A i \in SendIds :
        (ParsedSuccess(i) /\ HasStringReply(sends[i].body))
            => BotsOf(i) = <<FieldOf(sends[i].body, kReply).s>>

\* the body {"reply":"A","replies":["B"],"text":"C"} was answered with "A"
C7_Witness ==
    \E i \in SendIds :
        /\ Done(i)
        /\ sends[i].status = 200
        /\ sends[i].body = BodyAll
        /\ BotsOf(i) = <<sA>>

\* C8: a parsed success body without a string "reply" whose "replies" is an
\* array adds one bot message per element, each the string coercion of the
\* element, in array order (none, and no apology, for the empty array).
C8_RepliesInOrder ==
    \A i \in SendIds :
        (ParsedSuccess(i) /\ ~HasStringReply(sends[i].body)
                          /\ HasArrayReplies(sends[i].body))
            => LET a == FieldOf(sends[i].body, kReplies).a
               IN  /\ Len(BotsOf(i)) = Len(a)
                   /\ \A k \in 1..Len(a) :
                          CanCoerce(a[k]) /\ BotsOf(i)[k] = ToStr(a[k])

\* C9: a parsed success body with no string "reply", no array "replies" and
\* a field "text" adds exactly one bot message, the string coercion of
\* that field, also when the field is 0, false or "".
C9_TextCoerced ==
    \A i \in SendIds :
        (ParsedSuccess(i) /\ ~HasStringReply(sends[i].body)
                          /\ ~HasArrayReplies(sends[i].body)
                          /\ HasField(sends[i].body, kText)
                          /\ CanCoerce(FieldOf(sends[i].body, kText)))
            => BotsOf(i) = <<ToStr(FieldOf(sends[i].body, kText))>>

\* C10: a parsed success body that matches none of the rules a, b and c
\* adds exactly one bot message, the compact serialization of the body,
\* and no apology.
C10_FallbackStringified ==
    \A i \in SendIds :
        (ParsedSuccess(i) /\ ~HasStringReply(sends[i].body)
                          /\ ~HasArrayReplies(sends[i].body)
                          /\ ~HasField(sends[i].body, kText))
            => BotsOf(i) = <<Stringify(sends[i].body)>>

\* is s empty or made of whitespace only
AllWhite(s) == \A k \in 1..Len(s) : s[k] \in WhiteSpace

IsUser(e) == e.cls = "user"

UserEntries == SelectSeq(messages, IsUser)

\* C11: while the textarea is empty or whitespace-only no step (so no send
\* trigger) starts a send, adds a user entry or issues a request, and with
\* no send in flight no step changes the message area or calls the
\* observer.
C11_EmptyInputNoOp ==
    [][AllWhite(textarea) =>
          /\ Len(sends') = Len(sends)
          /\ requests' = requests
          /\ UserEntries' = UserEntries
          /\ TypingCount' <= TypingCount
          /\ InFlight = {} => (messages' = messages /\ observed' = observed)]_vars

\* the textarea holds " " after a send has settled
C11_Witness ==
    /\ textarea = <<" ">>
    /\ Len(sends) = 1
    /\ Done(1)
    /\ Len(Transcript) >= 2

\* C12: every payload handed to fetch carries the widget's sessionId, the
\* same for all sends, which is the host's when the host gave one.
C12_SessionStable ==
    /\ \A k \in 1..Len(requests) : requests[k].sessionId = sessionId
    /\ opts.sessionId # NoSession => sessionId = opts.sessionId

\* two requests were issued with the host's id, the first for a send that
\* failed
C12_Witness ==
    /\ Len(requests) = 2
    /\ opts.sessionId = HostSession
    /\ Len(sends) = 2
    /\ Done(1)
    /\ sends[1].err = "network"
    /\ requests[1].sessionId = HostSession
    /\ requests[2].sessionId = HostSession

\* C13: with an observer that throws on every call, every call's entry is
\* in the transcript, no exception reaches the send (every user entry has
\* its send, no send fails because of the observer), and a send whose
\* exchange succeeded has exactly its resolved replies and no apology.
C13_ObserverIsolated ==
    opts.onMessageReceived = "throws" =>
        /\ Len(observed) = Len(Transcript)
        /\ \A k \in 1..Len(observed) : observed[k].text = Transcript[k].text
        /\ Len(UserEntries) = Len(sends)
        /\ \A i \in SendIds :
               /\ sends[i].err # "observer"
               /\ (Done(i) /\ sends[i].err = "none") =>
                      BotsOf(i) = ResolveReplies(ParseJson(sends[i].body)).out

\* a send answered with two replies has settled under a throwing observer,
\* which was called three times
C13_Witness ==
    /\ opts.onMessageReceived = "throws"
    /\ Len(sends) = 1
    /\ Done(1)
    /\ BotsOf(1) = <<sX, sY>>
    /\ Len(observed) = 3

\* C14: an observer that is a function has been called exactly once per
\* message of the transcript, in transcript order, with the entry's author
\* and text and the widget's sessionId, and never for a typing entry.
C14_ObservedEveryMessage ==
    IsFunction(opts.onMessageReceived) =>
        observed = [k \in 1..Len(Transcript) |->
                       [who |-> Transcript[k].cls,
                        text |-> Transcript[k].text,
                        sessionId |-> sessionId]]

\* four messages were observed while a typing entry is shown
C14_Witness ==
    /\ opts.onMessageReceived = "fn"
    /\ Len(observed) = 4
    /\ TypingCount = 1
    /\ observed[1].who = "user"
    /\ observed[2].who = "bot"

\* C15: with no endpoint no request is ever issued, and a settled send has
\* added its user message and exactly one bot entry, the apology; once no
\* send is pending no typing entry is left.
C15_NoEndpointFails ==
    opts.endpoint = <<>> =>
        /\ requests = <<>>
        /\ InFlight = {} => TypingCount = 0
        /\ \A i \in SendIds :
               Done(i) =>
                   /\ sends[i].err = "endpoint"
                   /\ BotsOf(i) = <<Apology>>
                   /\ \E k \in 1..Len(messages) :
                          /\ messages[k].cls = "user"
                          /\ messages[k].by = i
                          /\ messages[k].text = sends[i].text

\* a send without endpoint has settled: user message, apology, no request
C15_Witness ==
    /\ opts.endpoint = <<>>
    /\ Len(sends) = 1
    /\ Done(1)
    /\ TextsOf(messages) = <<sends[1].text, Apology>>
    /\ requests = <<>>

\* C16: a step that changes isOpen (open, close, toggle) changes nothing
\* else, so it leaves the transcript, the typing entries and every send
\* as they are, and no step of a send changes isOpen.
C16_OpenIndependent ==
    [][isOpen' # isOpen =>
          UNCHANGED <<opts, sessionId, textarea, messages, sends, requests,
                      observed>>]_vars

\* a send has settled with its replies while the panel is closed
C16_Witness ==
    \E i \in SendIds :
        /\ Done(i)
        /\ BotsOf(i) = <<sX, sY>>
        /\ ~isOpen

IsPrefix(s, t) == Len(s) <= Len(t) /\ SubSeq(t, 1, Len(s)) = s

\* C17: across every step the sequence of user and bot messages of the
\* earlier state is a prefix of that of the later state.
C17_AppendOnly == [][IsPrefix(Transcript, Transcript')]_vars

\* _hideTyping has run after two replies were appended behind the typing
\* entry
C17_Witness ==
    \E i \in SendIds :
        /\ Done(i)
        /\ BotsOf(i) = <<sX, sY>>
        /\ TypingCount = 0
        /\ Len(Transcript) = 3

\* C18: a typing entry is shown exactly when a send is in flight.
C18_TypingIffInFlight == (TypingCount > 0) <=> (InFlight # {})

\* C19: under the fairness of the network every send that was started
\* settles, in a state with no typing entry, and when every send has
\* settled, one of them with a failure, a click on Send with a non-blank
\* text starts the next send.
C19_SendsSettle ==
    /\ \A n \in 1..2 :
           (Len(sends) >= n) ~>
               (Len(sends) >= n /\ sends[n].pc = "done" /\ TypingCount = 0)
    /\ [](( /\ InFlight = {}
            /\ \E i \in SendIds : sends[i].err # "none"
            /\ Len(sends) < 2
            /\ ~AllWhite(textarea) )
          => ENABLED Click(2))

\* after a send that failed, a later send has succeeded
C19_Witness ==
    \E i, j \in SendIds :
        /\ i < j
        /\ Done(i)
        /\ sends[i].err # "none"
        /\ ~sends[j].overlapped
        /\ Done(j)
        /\ sends[j].err = "none"
        /\ BotsOf(j) = <<sX, sY>>
        /\ TypingCount = 0

\* C20: every bot entry of a send comes after the send's user message, and
\* the bot entries of one send are contiguous in the transcript.
C20_RepliesContiguous ==
    LET T == Transcript
    IN  \A k \in 1..Len(T) :
            T[k].cls = "bot" =>
                /\ \E u \in 1..(k - 1) : T[u].cls = "user" /\ T[u].by = T[k].by
                /\ \A l \in (k + 1)..Len(T) :
                       (T[l].cls = "bot" /\ T[l].by = T[k].by) =>
                           \A m \in k..l : T[m].cls = "bot" /\ T[m].by = T[k].by

\* two overlapping sends whose responses arrived in reverse order: the
\* replies of the second precede those of the first
C20_Witness ==
    /\ Len(sends) = 2
    /\ Done(1)
    /\ Done(2)
    /\ sends[2].overlapped
    /\ BotsOf(1) = <<sX, sY>>
    /\ BotsOf(2) = <<sX, sY>>
    /\ Transcript[3].by = 2
    /\ Transcript[6].by = 1

====
